---- MODULE Spec2Model ----
(***************************************************************************)
(* RawInputViewer: the keyboard raw-input normalizer                       *)
(* (MainWindow::adjustKeyboardInput), the packed list-view item            *)
(* (PackedRawKeyboard / RawKeyboard) and the WM_INPUT / WM_COMMAND         *)
(* handlers of MainWindow that drive them.                                 *)
(*                                                                         *)
(* The specifications, all over the same variables:                           *)
(*   Spec          the window: onInput, onCommand, the adjustment toggle   *)
(*   SpecNormalize adjustKeyboardInput alone, over a wide set of records   *)
(*   SpecCodec     PackedRawKeyboard pack / getRawKeyboard alone           *)
(*   SpecTwin      adjustKeyboardInput on one record by two normalizers,   *)
(*                 one with None pending and one with E0 pending           *)
(*   SpecRegister  the NoHotkeys / NoLegacy check buttons and              *)
(*                 registerRawInputDevice                                  *)
(*   SpecLoader    the constructor's table loops on a text, then either on *)
(*                 a second text derived from it, or lookupKeyCode /       *)
(*                 lookupVirtualKey and the display code's use of the      *)
(*                 iterator                                                *)
(***************************************************************************)
EXTENDS Integers, Sequences, FiniteSets, TLC

VARIABLES
    pendingSequence_,   \* MainWindow::pendingSequence_ : ScanCodeSequence
    items,              \* the list view's items: the lParam of each, in order
    adjustmentChecked,  \* the toolbar's ID_TOGGLE_ADJUSTMENT check state
    lastFedE1,          \* history: the last non-overrun record that
                        \*   adjustKeyboardInput processed carried RI_KEY_E1
    clearedSinceFed,    \* history: clearListView ran after that record
    last,               \* history: the last message handled and its outcome
    codec,              \* SpecCodec: the event packed, the word, the unpacked
    loader,             \* SpecLoader: the mapping texts, the tables built
                        \*   from them, a lookup and its display
    twin,               \* SpecTwin: one record normalized by two normalizers
    registration        \* SpecRegister: the status bar's two check buttons
                        \*   and the calls of registerRawInputDevice

vars == <<pendingSequence_, items, adjustmentChecked, lastFedE1,
          clearedSinceFed, last, codec, loader, twin, registration>>

(***************************************************************************)
(* Platform constants (winuser.h / ntddkbd.h values) and AdjustmentFlags.   *)
(***************************************************************************)
RI_KEY_BREAK == 1
RI_KEY_E0 == 2
RI_KEY_E1 == 4
KEYBOARD_OVERRUN_MAKE_CODE == 255
RI_MOUSE_RIGHT_BUTTON_UP == 8
RIDEV_NOLEGACY == 48
RIDEV_NOHOTKEYS == 512
VK_SHIFT == 16
VK_CONTROL == 17
VK_MENU == 18
VK_PAUSE == 19
VK_LSHIFT == 160
VK_RSHIFT == 161
VK_RCONTROL == 163
VK_RMENU == 165
MakeCodeMapped == 1
VirtualKeyAdjusted == 2
ExtendedLookup == 128

ScanCodeSequence == {"None", "E0", "E1"}

(***************************************************************************)
(* Bounds of the model.                                                    *)
(***************************************************************************)
MaxItems == 2       \* list-view items kept before input must wait for a clear
MaxRegistrations == 5   \* calls of registerRawInputDevice in a run

(***************************************************************************)
(* Fixed-width integer arithmetic.                                         *)
(***************************************************************************)
Pow2(n) == 2 ^ n

\* a & b and a | b on unsigned operands, bit by bit
RECURSIVE BitAnd(_, _)
BitAnd(a, b) ==
    IF a = 0 \/ b = 0 THEN 0
    ELSE (a % 2) * (b % 2) + 2 * BitAnd(a \div 2, b \div 2)

RECURSIVE BitOr(_, _)
BitOr(a, b) ==
    IF a = 0 THEN b
    ELSE IF b = 0 THEN a
    ELSE (IF a % 2 = 1 \/ b % 2 = 1 THEN 1 ELSE 0)
         + 2 * BitOr(a \div 2, b \div 2)

LOWORD(x) == x % Pow2(16)
ToUSHORT(x) == x % Pow2(16)

(***************************************************************************)
(* RawKeyboard: RAWKEYBOARD plus adjustments and isKeyDown.                *)
(***************************************************************************)
\* RawKeyboard(const RAWKEYBOARD&)
RawKeyboard(rawkbd) ==
    [MakeCode    |-> rawkbd.MakeCode,
     Flags       |-> rawkbd.Flags,
     VKey        |-> rawkbd.VKey,
     adjustments |-> IF BitAnd(rawkbd.Flags, RI_KEY_E0) # 0
                     THEN ExtendedLookup ELSE 0,
     isKeyDown   |-> BitAnd(rawkbd.Flags, RI_KEY_BREAK) = 0]

\* RawKeyboard(const RAWKEYBOARD&, AdjustmentFlags)
RawKeyboardWith(rawkbd, adjustmentFlags) ==
    [RawKeyboard(rawkbd) EXCEPT !.adjustments = adjustmentFlags]

\* variant: the ExtendedLookup bit itself is or-ed into the make code
getLookupCode_Bit7(rawKbd) ==
    ToUSHORT(BitOr(rawKbd.MakeCode,
                   IF BitAnd(rawKbd.adjustments, ExtendedLookup) # 0
                   THEN ExtendedLookup ELSE 0))

\* RawKeyboard::getLookupCode
getLookupCode(rawKbd) ==
    ToUSHORT(BitOr(rawKbd.MakeCode,
                   IF BitAnd(rawKbd.adjustments, ExtendedLookup) # 0
                   THEN 256 ELSE 0))

(***************************************************************************)
(* PackedRawKeyboard: four 8-bit fields sharing storage with a 32-bit      *)
(* lParam; the first declared bit-field is the least significant byte.     *)
(* LPARAM is a signed 32-bit integer: a word whose bit 31 is set reads as  *)
(* the negative number of the same 32 bits.                                *)
(***************************************************************************)
\* the top byte of a signed 32-bit word, as the multiple of 2^24 it adds
TopByte(b) == (IF b >= Pow2(7) THEN b - Pow2(8) ELSE b) * Pow2(24)

\* variant: flags and vKey change places in the word
PackedRawKeyboard_Swapped(rawkbd) ==
    (rawkbd.MakeCode % Pow2(8))
    + (rawkbd.VKey % Pow2(8)) * Pow2(8)
    + (rawkbd.Flags % Pow2(8)) * Pow2(16)
    + TopByte(rawkbd.adjustments % Pow2(8))

\* PackedRawKeyboard(const RawKeyboard&).lParam: each field keeps its low
\* 8 bits
PackedRawKeyboard(rawkbd) ==
    (rawkbd.MakeCode % Pow2(8))
    + (rawkbd.Flags % Pow2(8)) * Pow2(8)
    + (rawkbd.VKey % Pow2(8)) * Pow2(16)
    + TopByte(rawkbd.adjustments % Pow2(8))

\* variant: the stored adjustments are not restored
getRawKeyboard_NoAdjustments(lParam) ==
    RawKeyboard(
        [MakeCode |-> ToUSHORT(lParam % Pow2(8)),
         Flags    |-> ToUSHORT((lParam \div Pow2(8)) % Pow2(8)),
         VKey     |-> ToUSHORT((lParam \div Pow2(16)) % Pow2(8))])

\* PackedRawKeyboard(LPARAM).getRawKeyboard()
getRawKeyboard(lParam) ==
    RawKeyboardWith(
        [MakeCode |-> ToUSHORT(lParam % Pow2(8)),
         Flags    |-> ToUSHORT((lParam \div Pow2(8)) % Pow2(8)),
         VKey     |-> ToUSHORT((lParam \div Pow2(16)) % Pow2(8))],
        (lParam \div Pow2(24)) % Pow2(8))

(***************************************************************************)
(* MainWindow::adjustKeyboardInput, step by step.                          *)
(***************************************************************************)
\* variant: the overrun filter is missing
IsOverrun_Never(rawKbd) == FALSE

\* line 25: the record is a keyboard overrun marker
IsOverrun(rawKbd) == rawKbd.MakeCode = KEYBOARD_OVERRUN_MAKE_CODE

\* variant: a record flagged E1 and E0 is not taken as the E1 prefix
IsE1Prefix_NotE0(rawKbd) ==
    BitAnd(rawKbd.Flags, RI_KEY_E1) # 0 /\ BitAnd(rawKbd.Flags, RI_KEY_E0) = 0

\* line 31: the record carries the E1 prefix flag
IsE1Prefix(rawKbd) == BitAnd(rawKbd.Flags, RI_KEY_E1) # 0

\* variant: only the make (key down) of the fake shift starts a sequence
IsE0Prefix_MakeOnly(rawKbd) ==
    /\ BitAnd(rawKbd.Flags, RI_KEY_E0) # 0
    /\ rawKbd.MakeCode = 42
    /\ BitAnd(rawKbd.Flags, RI_KEY_BREAK) = 0

\* line 38: 0xE02A, the fake left shift that starts an E0 sequence
IsE0Prefix(rawKbd) ==
    BitAnd(rawKbd.Flags, RI_KEY_E0) # 0 /\ rawKbd.MakeCode = 42

\* variant: the pending sequence is read but not reset
ExchangePending_Keep(pending) ==
    [taken |-> pending, pendingSequence_ |-> pending]

\* line 44: std::exchange(pendingSequence_, ScanCodeSequence::None)
ExchangePending(pending) ==
    [taken |-> pending, pendingSequence_ |-> "None"]

\* variant: the translation's result is cut to its low byte
MapMakeCode_LowByte(rawKbd, mapResult) ==
    IF rawKbd.MakeCode = 0
    THEN [rawKbd EXCEPT
            !.MakeCode = mapResult % Pow2(8),
            !.adjustments = BitOr(rawKbd.adjustments, MakeCodeMapped)]
    ELSE rawKbd

\* variant: every record is marked as having its make code mapped
MapMakeCode_AlwaysFlag(rawKbd, mapResult) ==
    [rawKbd EXCEPT
       !.MakeCode = IF rawKbd.MakeCode = 0 THEN LOWORD(mapResult)
                    ELSE rawKbd.MakeCode,
       !.adjustments = BitOr(rawKbd.adjustments, MakeCodeMapped)]

\* lines 46-52: a zero make code is taken from the virtual key;
\* mapResult is what MapVirtualKey(VKey, MAPVK_VK_TO_VSC_EX) returns
MapMakeCode(rawKbd, mapResult) ==
    IF rawKbd.MakeCode = 0
    THEN [rawKbd EXCEPT
            !.MakeCode = LOWORD(mapResult),
            !.adjustments = BitOr(rawKbd.adjustments, MakeCodeMapped)]
    ELSE rawKbd

\* variant: Pause/Break is expected after an E0 sequence
AdjustPauseNumLock_AfterE0(rawKbd, pendingSequence) ==
    IF rawKbd.MakeCode = 69
    THEN IF pendingSequence = "E0"
         THEN [rawKbd EXCEPT
                 !.VKey = VK_PAUSE,
                 !.adjustments = BitOr(rawKbd.adjustments, VirtualKeyAdjusted)]
         ELSE [rawKbd EXCEPT
                 !.adjustments = BitOr(rawKbd.adjustments, ExtendedLookup)]
    ELSE rawKbd

\* variant: Pause/Break is not marked as an adjusted virtual key
AdjustPauseNumLock_NoFlag(rawKbd, pendingSequence) ==
    IF rawKbd.MakeCode = 69
    THEN IF pendingSequence = "E1"
         THEN [rawKbd EXCEPT !.VKey = VK_PAUSE]
         ELSE [rawKbd EXCEPT
                 !.adjustments = BitOr(rawKbd.adjustments, ExtendedLookup)]
    ELSE rawKbd

\* variant: Num Lock is not given the extended lookup code
AdjustPauseNumLock_NoLookup(rawKbd, pendingSequence) ==
    IF rawKbd.MakeCode = 69 /\ pendingSequence = "E1"
    THEN [rawKbd EXCEPT
            !.VKey = VK_PAUSE,
            !.adjustments = BitOr(rawKbd.adjustments, VirtualKeyAdjusted)]
    ELSE rawKbd

\* lines 59-72: make code 0x45 is Pause/Break after E1, Num Lock otherwise
AdjustPauseNumLock(rawKbd, pendingSequence) ==
    IF rawKbd.MakeCode = 69
    THEN IF pendingSequence = "E1"
         THEN [rawKbd EXCEPT
                 !.VKey = VK_PAUSE,
                 !.adjustments = BitOr(rawKbd.adjustments, VirtualKeyAdjusted)]
         ELSE [rawKbd EXCEPT
                 !.adjustments = BitOr(rawKbd.adjustments, ExtendedLookup)]
    ELSE rawKbd

\* variant: the Shift keys are told apart by the E0 flag
AdjustVirtualKey_ShiftByE0(rawKbd) ==
    LET isE0 == BitAnd(rawKbd.Flags, RI_KEY_E0) # 0
        adjusted(vk) ==
            [rawKbd EXCEPT
               !.VKey = vk,
               !.adjustments = BitOr(rawKbd.adjustments, VirtualKeyAdjusted)]
    IN  CASE rawKbd.VKey = VK_SHIFT ->
               IF isE0 THEN adjusted(VK_RSHIFT) ELSE adjusted(VK_LSHIFT)
          [] rawKbd.VKey = VK_CONTROL ->
               IF isE0 THEN adjusted(VK_RCONTROL) ELSE rawKbd
          [] rawKbd.VKey = VK_MENU ->
               IF isE0 THEN adjusted(VK_RMENU) ELSE rawKbd
          [] OTHER -> rawKbd

\* variant: Control and Menu are told apart by the make code alone
AdjustVirtualKey_NoE0Test(rawKbd) ==
    LET adjusted(vk) ==
            [rawKbd EXCEPT
               !.VKey = vk,
               !.adjustments = BitOr(rawKbd.adjustments, VirtualKeyAdjusted)]
    IN  CASE rawKbd.VKey = VK_SHIFT ->
               IF rawKbd.MakeCode = 42 THEN adjusted(VK_LSHIFT)
               ELSE IF rawKbd.MakeCode = 54 THEN adjusted(VK_RSHIFT)
               ELSE rawKbd
          [] rawKbd.VKey = VK_CONTROL -> adjusted(VK_RCONTROL)
          [] rawKbd.VKey = VK_MENU -> adjusted(VK_RMENU)
          [] OTHER -> rawKbd

\* lines 75-109: left/right variants of Shift, Control and Menu
AdjustVirtualKey(rawKbd) ==
    LET isE0 == BitAnd(rawKbd.Flags, RI_KEY_E0) # 0
        adjusted(vk) ==
            [rawKbd EXCEPT
               !.VKey = vk,
               !.adjustments = BitOr(rawKbd.adjustments, VirtualKeyAdjusted)]
    IN  CASE rawKbd.VKey = VK_SHIFT ->
               IF rawKbd.MakeCode = 42 THEN adjusted(VK_LSHIFT)
               ELSE IF rawKbd.MakeCode = 54 THEN adjusted(VK_RSHIFT)
               ELSE rawKbd
          [] rawKbd.VKey = VK_CONTROL ->
               IF isE0 THEN adjusted(VK_RCONTROL) ELSE rawKbd
          [] rawKbd.VKey = VK_MENU ->
               IF isE0 THEN adjusted(VK_RMENU) ELSE rawKbd
          [] OTHER -> rawKbd

\* The whole function: the value returned, the record as it leaves the
\* function, and pendingSequence_ afterwards.
adjustKeyboardInput(pending, rawKbd, mapResult) ==
    IF IsOverrun(rawKbd)
    THEN [ret |-> FALSE, rawKbd |-> rawKbd, pendingSequence_ |-> pending,
          mapCalled |-> FALSE]
    ELSE IF IsE1Prefix(rawKbd)
    THEN [ret |-> FALSE, rawKbd |-> rawKbd, pendingSequence_ |-> "E1",
          mapCalled |-> FALSE]
    ELSE IF IsE0Prefix(rawKbd)
    THEN [ret |-> FALSE, rawKbd |-> rawKbd, pendingSequence_ |-> "E0",
          mapCalled |-> FALSE]
    ELSE
      LET x == ExchangePending(pending)
          pendingSequence == x.taken
          mapped == MapMakeCode(rawKbd, mapResult)
          called == rawKbd.MakeCode = 0
      IN  IF mapped.MakeCode = 0
          THEN [ret |-> FALSE, rawKbd |-> mapped,
                pendingSequence_ |-> x.pendingSequence_,
                mapCalled |-> called]
          ELSE [ret |-> TRUE,
                rawKbd |-> AdjustVirtualKey(
                               AdjustPauseNumLock(mapped, pendingSequence)),
                pendingSequence_ |-> x.pendingSequence_,
                mapCalled |-> called]

(***************************************************************************)
(* Text helpers of RawInputViewer.hpp.  A text is a sequence of one-       *)
(* character strings.                                                      *)
(***************************************************************************)
\* isWhitespace: isspace in the "C" locale
isWhitespace(ch) == ch \in {" ", "\t", "\n", "\r", "\f"}

\* basic_string_view::find(separator): the first position, 0 for npos
Find(text, ch) ==
    IF \E i \in 1 .. Len(text) : text[i] = ch
    THEN CHOOSE i \in 1 .. Len(text) :
            text[i] = ch /\ \A j \in 1 .. (i - 1) : text[j] # ch
    ELSE 0

\* the pieces between separators; a text ending in a separator has an
\* empty last piece
RECURSIVE SplitPieces(_, _)
SplitPieces(text, separator) ==
    LET pos == Find(text, separator)
    IN  IF pos = 0 THEN << text >>
        ELSE << SubSeq(text, 1, pos - 1) >>
             \o SplitPieces(SubSeq(text, pos + 1, Len(text)), separator)

\* std::views::split: an empty text has no pieces
Split(text, separator) ==
    IF text = << >> THEN << >> ELSE SplitPieces(text, separator)

\* the transform of splitAndTrimTrailing: whitespace is dropped at the end
RECURSIVE TrimTrailing(_)
TrimTrailing(piece) ==
    IF piece # << >> /\ isWhitespace(piece[Len(piece)])
    THEN TrimTrailing(SubSeq(piece, 1, Len(piece) - 1))
    ELSE piece

\* variant: the pieces are not trimmed
splitAndTrimTrailing_NoTrim(text, separator) ==
    SelectSeq(Split(text, separator), LAMBDA sv : sv # << >>)

\* splitAndTrimTrailing: split, trim each piece, drop the empty ones
splitAndTrimTrailing(text, separator) ==
    LET pieces  == Split(text, separator)
        trimmed == [i \in 1 .. Len(pieces) |-> TrimTrailing(pieces[i])]
    IN  SelectSeq(trimmed, LAMBDA sv : sv # << >>)

\* splitOnce: the text before and after the first separator
splitOnce(text, separator) ==
    IF text = << >> THEN << << >>, << >> >>
    ELSE LET pos == Find(text, separator)
         IN  IF pos = 0 THEN << text, << >> >>
             ELSE << SubSeq(text, 1, pos - 1),
                     SubSeq(text, pos + 1, Len(text)) >>

\* the value of a digit character, 36 for a character that is no digit
DigitValue(ch) ==
    CASE ch = "0" -> 0  [] ch = "1" -> 1  [] ch = "2" -> 2  [] ch = "3" -> 3
      [] ch = "4" -> 4  [] ch = "5" -> 5  [] ch = "6" -> 6  [] ch = "7" -> 7
      [] ch = "8" -> 8  [] ch = "9" -> 9
      [] ch \in {"a", "A"} -> 10  [] ch \in {"b", "B"} -> 11
      [] ch \in {"c", "C"} -> 12  [] ch \in {"d", "D"} -> 13
      [] ch \in {"e", "E"} -> 14  [] ch \in {"f", "F"} -> 15
      [] ch \in {"z", "Z"} -> 35
      [] OTHER -> 36

\* strtoll's digit loop: stops at the first character that is no digit of
\* the base
RECURSIVE ParseDigits(_, _, _)
ParseDigits(text, base, acc) ==
    IF text # << >> /\ DigitValue(text[1]) < base
    THEN ParseDigits(Tail(text), base, acc * base + DigitValue(text[1]))
    ELSE acc

RECURSIVE SkipWhitespace(_)
SkipWhitespace(text) ==
    IF text # << >> /\ isWhitespace(text[1])
    THEN SkipWhitespace(Tail(text)) ELSE text

\* std::strtoll(str, nullptr, base): leading whitespace, a sign, "0x" for
\* base 16, digits; 0 when there is no digit
strtoll(text, base) ==
    LET t1   == SkipWhitespace(text)
        neg  == t1 # << >> /\ t1[1] = "-"
        t2   == IF t1 # << >> /\ t1[1] \in {"-", "+"} THEN Tail(t1) ELSE t1
        t3   == IF /\ base = 16
                   /\ Len(t2) >= 3
                   /\ t2[1] = "0"
                   /\ t2[2] \in {"x", "X"}
                   /\ DigitValue(t2[3]) < 16
                THEN SubSeq(t2, 3, Len(t2)) ELSE t2
        n    == ParseDigits(t3, base, 0)
    IN  IF neg THEN 0 - n ELSE n

\* toUShort = toIntegralNumber<unsigned short>
toUShort(range, base) == strtoll(range, base) % Pow2(16)

\* toInt = toIntegralNumber<int>; the texts of the model stay within int
toInt(range, base) == strtoll(range, base)

\* toWString: the texts of the model are ASCII, one wide character each
toWString(range) == range

\* KeyCodes::KeyCodes
KeyCodes(keyCode, sml, ray, glfw) ==
    [keyCode |-> keyCode, sml |-> toWString(sml), ray |-> toWString(ray),
     glfw |-> toWString(glfw)]

(***************************************************************************)
(* The tables: std::map as a function from the keys it holds.              *)
(***************************************************************************)
EmptyMap == << >>

\* variant: an existing key is overwritten (insert_or_assign)
emplace_Overwrite(map, key, value) ==
    [k \in (DOMAIN map) \cup {key} |-> IF k = key THEN value ELSE map[k]]

\* std::map::emplace: an existing key keeps its entry
emplace(map, key, value) ==
    IF key \in DOMAIN map THEN map
    ELSE [k \in (DOMAIN map) \cup {key} |-> IF k = key THEN value ELSE map[k]]

\* the body of the scan-code loop, for one line
ScanCodeLine(map, mappingView) ==
    LET p1 == splitOnce(mappingView, "=")
        p2 == splitOnce(p1[2], ",")
        p3 == splitOnce(p2[2], ",")
        p4 == splitOnce(p3[2], ",")
    IN  emplace(map, toUShort(p1[1], 16),
                KeyCodes(toInt(p2[1], 10), p3[1], p4[1], p4[2]))

\* the body of the virtual-key loop, for one line
VKeyLine(map, mappingView) ==
    LET p1 == splitOnce(mappingView, "=")
        p2 == splitOnce(p1[2], ",")
    IN  emplace(map, toUShort(p1[1], 16),
                << toWString(p2[1]), toWString(p2[2]) >>)

RECURSIVE LoadLines(_, _, _)
LoadLines(map, mappingViews, which) ==
    IF mappingViews = << >> THEN map
    ELSE LoadLines(IF which = "scan"
                   THEN ScanCodeLine(map, Head(mappingViews))
                   ELSE VKeyLine(map, Head(mappingViews)),
                   Tail(mappingViews), which)

\* the constructor's loop over the lines of a mapping text
LoadMapping(text, which) ==
    LoadLines(EmptyMap, splitAndTrimTrailing(text, "\n"), which)

\* std::map::find: an iterator is the end flag and, when not the end, the key
find(map, key) ==
    IF key \in DOMAIN map THEN [end |-> FALSE, key |-> key]
    ELSE [end |-> TRUE, key |-> 0]

\* lookupVirtualKey
lookupVirtualKey(map, rawKbd) ==
    IF ~find(map, rawKbd.VKey).end THEN find(map, rawKbd.VKey)
    ELSE find(map, 255)

\* variant: a miss falls back to the key of the other table
lookupKeyCode_FallbackFF(map, rawKbd) ==
    IF ~find(map, getLookupCode(rawKbd)).end
    THEN find(map, getLookupCode(rawKbd))
    ELSE find(map, 255)

\* lookupKeyCode
lookupKeyCode(map, rawKbd) ==
    IF ~find(map, getLookupCode(rawKbd)).end
    THEN find(map, getLookupCode(rawKbd))
    ELSE find(map, 0)

\* What it->second can give the display code when it is end(): the read is
\* undefined, so the process may stop, or the read may yield arbitrary
\* contents, which may also happen to be an empty entry.
EndDereferenceOutcomes == {"crash", "garbage", "empty"}

(***************************************************************************)
(* Inputs.                                                                 *)
(***************************************************************************)
Rec(mc, fl, vk) == [MakeCode |-> mc, Flags |-> fl, VKey |-> vk]

\* Records the window is fed in Spec: the 'A' key, the E1 prefix of Pause,
\* the fake shift of an E0 sequence, overrun markers, a record without a
\* make code, and make code 0x45 under several flags and virtual keys.
AppRecords ==
    {Rec(30, 0, 65), Rec(29, 4, 19), Rec(42, 2, 255),
     Rec(255, 0, 255), Rec(255, 4, 255), Rec(0, 0, 65)}
    \cup {Rec(69, fl, 144) : fl \in {0, 1, 2}}
    \cup {Rec(69, 2, 17)}

\* What MapVirtualKey may return for them: 0 (no translation) or a code
AppMapResults == {0, 30}

\* usButtonFlags of the mouse records
MouseButtonFlags == {0, 1, 8, 9}

\* Records adjustKeyboardInput is applied to in SpecNormalize
MakeCodes == {0, 29, 30, 42, 54, 69, 255, 325}
FlagValues == 0 .. 7
VKeys == {16, 17, 18, 19, 65, 144, 163, 255}
MapResults == {0, 29, 42, 54, 69, 255, 256, 57373}
NormalizeRecords ==
    {Rec(mc, fl, vk) : mc \in MakeCodes, fl \in FlagValues, vk \in VKeys}

\* Events packed in SpecCodec
CodecFields == {0, 1, 30, 128, 255, 300}
CodecEvents ==
    {RawKeyboardWith(Rec(mc, fl, vk), adj) :
        mc \in CodecFields, fl \in CodecFields,
        vk \in CodecFields, adj \in CodecFields}

(***************************************************************************)
(* The state after construction.                                           *)
(***************************************************************************)
NoRecord == Rec(0, 0, 0)

\* the history record of a message that carried no keyboard record
LastOf(op) ==
    [op            |-> op,
     raw           |-> NoRecord,
     mapResult     |-> 0,
     adjusted      |-> FALSE,
     mapCalled     |-> FALSE,
     surfaced      |-> FALSE,
     rawKbd        |-> RawKeyboard(NoRecord),
     lParam        |-> 0,
     usButtonFlags |-> 0,
     pendingBefore |-> "None",
     fedE1Before   |-> FALSE,
     clearedBefore |-> FALSE]

\* The lines table texts are made of.  Scan-code lines: the 0x000 entry,
\* two lines for code 0x1E, and an extended code.  Virtual-key lines: the
\* 0xFF entry, two lines for 'A', and VK_RCONTROL.
ScanCodeLines ==
    { << "0", "0", "0", "=", "0", ",", "U", ",", "V", ",", "W" >>,
      << "1", "E", "=", "4", ",", "A", ",", "B", ",", "C" >>,
      << "1", "E", "=", "5", ",", "X", ",", "Y", ",", "Z" >>,
      << "1", "1", "D", "=", "6", ",", "R", ",", "S", ",", "T" >> }

VKeyLines ==
    { << "F", "F", "=", "U", ",", "V" >>,
      << "4", "1", "=", "A", ",", "B" >>,
      << "4", "1", "=", "X", ",", "Y" >>,
      << "A", "3", "=", "R", ",", "S" >> }

LinesOf(which) == IF which = "scan" THEN ScanCodeLines ELSE VKeyLines

\* a line whose key is no hex number
BadLine(which) ==
    IF which = "scan"
    THEN << "z", "z", "=", "1", ",", "A", ",", "B", ",", "C" >>
    ELSE << "z", "z", "=", "A", ",", "B" >>

\* at most MaxLines lines in a text
MaxLines == 2

LineSeqs(which) == UNION {[1 .. n -> LinesOf(which)] : n \in 1 .. MaxLines}

\* whitespace appended to every line, and the content of an inserted line
LinePads == { << >>, << "\r" >>, << " ", "\t" >> }
BlankLines == { << >>, << "\r" >>, << " " >> }

RECURSIVE Join(_)
Join(lines) ==
    IF Len(lines) = 1 THEN lines[1]
    ELSE lines[1] \o << "\n" >> \o Join(Tail(lines))

InsertAt(lines, line, pos) ==
    SubSeq(lines, 1, pos) \o << line >> \o SubSeq(lines, pos + 1, Len(lines))

\* the text of lines with pad after every line and blank as a line of its
\* own after the first pos lines
NoisyText(lines, pad, blank, pos) ==
    Join(InsertAt([i \in 1 .. Len(lines) |-> lines[i] \o pad], blank, pos))

\* the text of lines with the bad line after the first pos lines
BadLineText(lines, which, pos) == Join(InsertAt(lines, BadLine(which), pos))

\* records the display code looks up: codes of the lines and codes of none
LookupRecords ==
    { RawKeyboard(Rec(30, 0, 65)), RawKeyboard(Rec(29, 2, 163)),
      RawKeyboard(Rec(29, 0, 17)), RawKeyboard(Rec(0, 0, 255)),
      RawKeyboard(Rec(54, 0, 16)) }

LoaderIdle ==
    [stage |-> "idle", which |-> "scan", lines |-> << >>, text |-> << >>,
     map |-> EmptyMap, rel |-> "none", text2 |-> << >>, map2 |-> EmptyMap,
     rawKbd |-> RawKeyboard(Rec(0, 0, 0)), it |-> find(EmptyMap, 0),
     shown |-> [outcome |-> "none", value |-> << >>]]

\* no record drawn, nothing normalized
TwinIdle ==
    [stage |-> "idle", raw |-> NoRecord, mapResult |-> 0,
     ranNone |-> FALSE, fromNone |-> << >>, ranE0 |-> FALSE, fromE0 |-> << >>]

\* the buttons as StatusToolBar::create adds them, and no call yet
RegistrationIdle ==
    [noHotkeysChecked |-> TRUE, noLegacyChecked |-> TRUE, calls |-> << >>]

CodecIdle ==
    [stage |-> "idle", e |-> RawKeyboard(NoRecord), word |-> 0,
     out |-> RawKeyboard(NoRecord), lookupCode |-> 0]

\* MainWindow's members after the constructor: the pending sequence is
\* None, the list is empty, the toggle is what the registry held.
Init ==
    /\ pendingSequence_ = "None"
    /\ items = << >>
    /\ adjustmentChecked \in BOOLEAN
    /\ lastFedE1 = FALSE
    /\ clearedSinceFed = FALSE
    /\ last = LastOf("init")
    /\ codec = CodecIdle
    /\ loader = LoaderIdle
    /\ twin = TwinIdle
    /\ registration = RegistrationIdle

(***************************************************************************)
(* MainWindow's handlers.                                                  *)
(***************************************************************************)
\* variant: the item is inserted at position 0
addKeyEventToListView_AtFront(list, rawKbd) ==
    << PackedRawKeyboard(rawKbd) >> \o list

\* addKeyEventToListView -> ListView::insertItem at getItemCount()
addKeyEventToListView(list, rawKbd) == Append(list, PackedRawKeyboard(rawKbd))

\* variant: the record is adjusted whatever the toggle's state
AdjustIfChecked_Always(checked, pending, rawKbd, mapResult) ==
    adjustKeyboardInput(pending, rawKbd, mapResult)

\* onInput's condition !toolBar_.isAdjustmentChecked() ||
\* adjustKeyboardInput(rawKbd): unchecked, the function is not called and
\* the record is added as constructed
AdjustIfChecked(checked, pending, rawKbd, mapResult) ==
    IF checked
    THEN adjustKeyboardInput(pending, rawKbd, mapResult)
    ELSE [ret |-> TRUE, rawKbd |-> rawKbd, pendingSequence_ |-> pending,
          mapCalled |-> FALSE]

\* onInput, RIM_TYPEKEYBOARD
OnInputKeyboard(raw, mapResult) ==
    LET rawKbd0  == RawKeyboard(raw)
        r        == AdjustIfChecked(adjustmentChecked, pendingSequence_,
                                    rawKbd0, mapResult)
        fed      == adjustmentChecked /\ ~IsOverrun(rawKbd0)
    IN  /\ r.ret => Len(items) < MaxItems
        /\ r.mapCalled \/ mapResult = 0
        /\ pendingSequence_' = r.pendingSequence_
        /\ items' = IF r.ret THEN addKeyEventToListView(items, r.rawKbd)
                    ELSE items
        /\ lastFedE1' = IF fed THEN IsE1Prefix(rawKbd0) ELSE lastFedE1
        /\ clearedSinceFed' = IF fed THEN FALSE ELSE clearedSinceFed
        /\ last' = [op            |-> "keyboard",
                    raw           |-> raw,
                    mapResult     |-> mapResult,
                    adjusted      |-> adjustmentChecked,
                    mapCalled     |-> r.mapCalled,
                    surfaced      |-> r.ret,
                    rawKbd        |-> r.rawKbd,
                    lParam        |-> IF r.ret THEN PackedRawKeyboard(r.rawKbd)
                                      ELSE 0,
                    usButtonFlags |-> 0,
                    pendingBefore |-> pendingSequence_,
                    fedE1Before   |-> lastFedE1,
                    clearedBefore |-> clearedSinceFed]
        /\ UNCHANGED <<adjustmentChecked, codec, loader, twin, registration>>

\* variant: the list is emptied and the pending sequence is kept
clearListView_KeepPending ==
    /\ items' = << >>
    /\ UNCHANGED pendingSequence_
    /\ clearedSinceFed' = TRUE

\* clearListView
clearListView ==
    /\ items' = << >>
    /\ pendingSequence_' = "None"
    /\ clearedSinceFed' = TRUE

\* onInput, RIM_TYPEMOUSE
OnInputMouse(usButtonFlags) ==
    /\ IF BitAnd(usButtonFlags, RI_MOUSE_RIGHT_BUTTON_UP) # 0
       THEN clearListView
       ELSE UNCHANGED <<items, pendingSequence_, clearedSinceFed>>
    /\ last' = [LastOf("mouse") EXCEPT !.usButtonFlags = usButtonFlags]
    /\ UNCHANGED <<adjustmentChecked, lastFedE1, codec, loader,
                   twin, registration>>

\* onCommand, ID_CLEAR_LIST_VIEW
OnCommandClear ==
    /\ clearListView
    /\ last' = LastOf("clear")
    /\ UNCHANGED <<adjustmentChecked, lastFedE1, codec, loader,
                   twin, registration>>

\* the user clicks the TBSTYLE_CHECK button ID_TOGGLE_ADJUSTMENT
ToggleAdjustment ==
    /\ adjustmentChecked' = ~adjustmentChecked
    /\ last' = LastOf("toggle")
    /\ UNCHANGED <<pendingSequence_, items, lastFedE1, clearedSinceFed, codec,
                   loader, twin, registration>>

Next ==
    \/ \E raw \in AppRecords, m \in AppMapResults : OnInputKeyboard(raw, m)
    \/ \E bf \in MouseButtonFlags : OnInputMouse(bf)
    \/ OnCommandClear
    \/ ToggleAdjustment

Spec == Init /\ [][Next]_vars

(***************************************************************************)
(* adjustKeyboardInput alone: one call, for every pending sequence, record *)
(* and translation result of the sets above.                               *)
(***************************************************************************)
InitNormalize ==
    /\ pendingSequence_ \in ScanCodeSequence
    /\ items = << >>
    /\ adjustmentChecked = TRUE
    /\ lastFedE1 = FALSE
    /\ clearedSinceFed = FALSE
    /\ \E raw \in NormalizeRecords, m \in MapResults :
          last = [LastOf("input") EXCEPT !.raw = raw, !.mapResult = m]
    /\ codec = CodecIdle
    /\ loader = LoaderIdle
    /\ twin = TwinIdle
    /\ registration = RegistrationIdle

Normalize ==
    /\ last.op = "input"
    /\ LET r == adjustKeyboardInput(pendingSequence_, RawKeyboard(last.raw),
                                    last.mapResult)
       IN  /\ pendingSequence_' = r.pendingSequence_
           /\ last' = [last EXCEPT
                         !.op = "keyboard",
                         !.adjusted = TRUE,
                         !.mapCalled = r.mapCalled,
                         !.surfaced = r.ret,
                         !.rawKbd = r.rawKbd,
                         !.lParam = IF r.ret THEN PackedRawKeyboard(r.rawKbd)
                                    ELSE 0,
                         !.pendingBefore = pendingSequence_]
    /\ UNCHANGED <<items, adjustmentChecked, lastFedE1, clearedSinceFed,
                   codec, loader, twin, registration>>

NextNormalize == Normalize

SpecNormalize == InitNormalize /\ [][NextNormalize]_vars

(***************************************************************************)
(* PackedRawKeyboard alone: pack an event, then unpack the word.           *)
(***************************************************************************)
InitCodec ==
    /\ pendingSequence_ = "None"
    /\ items = << >>
    /\ adjustmentChecked = TRUE
    /\ lastFedE1 = FALSE
    /\ clearedSinceFed = FALSE
    /\ last = LastOf("init")
    /\ \E e \in CodecEvents : codec = [CodecIdle EXCEPT !.e = e]
    /\ loader = LoaderIdle
    /\ twin = TwinIdle
    /\ registration = RegistrationIdle

\* ListView::insertItem stores PackedRawKeyboard(rawKbd).lParam
Pack ==
    /\ codec.stage = "idle"
    /\ codec' = [codec EXCEPT !.stage = "packed",
                              !.word = PackedRawKeyboard(codec.e)]
    /\ UNCHANGED <<pendingSequence_, items, adjustmentChecked, lastFedE1,
                   clearedSinceFed, last, loader, twin, registration>>

\* getListViewItemDisplayInfo reads PackedRawKeyboard{lParam}.getRawKeyboard()
\* and lookupKeyCode asks the unpacked record for its lookup code
Unpack ==
    /\ codec.stage = "packed"
    /\ codec' = [codec EXCEPT
                   !.stage = "unpacked",
                   !.out = getRawKeyboard(codec.word),
                   !.lookupCode = getLookupCode(getRawKeyboard(codec.word))]
    /\ UNCHANGED <<pendingSequence_, items, adjustmentChecked, lastFedE1,
                   clearedSinceFed, last, loader, twin, registration>>

NextCodec == Pack \/ Unpack

SpecCodec == InitCodec /\ [][NextCodec]_vars

(***************************************************************************)
(* SpecTwin: the same record and translation result given to two           *)
(* normalizers, one whose pendingSequence_ is None and one whose           *)
(* pendingSequence_ is E0.                                                 *)
(***************************************************************************)
InitTwin ==
    /\ pendingSequence_ = "None"
    /\ items = << >>
    /\ adjustmentChecked = TRUE
    /\ lastFedE1 = FALSE
    /\ clearedSinceFed = FALSE
    /\ last = LastOf("init")
    /\ codec = CodecIdle
    /\ loader = LoaderIdle
    /\ registration = RegistrationIdle
    /\ \E raw \in NormalizeRecords, m \in MapResults :
          twin = [TwinIdle EXCEPT !.stage = "drawn", !.raw = raw,
                                  !.mapResult = m]

TwinOnly ==
    UNCHANGED <<pendingSequence_, items, adjustmentChecked, lastFedE1,
                clearedSinceFed, last, codec, loader, registration>>

\* adjustKeyboardInput with pendingSequence_ = None
NormalizeFromNone ==
    /\ twin.stage # "idle"
    /\ ~twin.ranNone
    /\ twin' = [twin EXCEPT
                  !.stage = "run", !.ranNone = TRUE,
                  !.fromNone = adjustKeyboardInput("None", RawKeyboard(twin.raw),
                                                   twin.mapResult)]
    /\ TwinOnly

\* adjustKeyboardInput with pendingSequence_ = E0
NormalizeFromE0 ==
    /\ twin.stage # "idle"
    /\ ~twin.ranE0
    /\ twin' = [twin EXCEPT
                  !.stage = "run", !.ranE0 = TRUE,
                  !.fromE0 = adjustKeyboardInput("E0", RawKeyboard(twin.raw),
                                                 twin.mapResult)]
    /\ TwinOnly

NextTwin == NormalizeFromNone \/ NormalizeFromE0

SpecTwin == InitTwin /\ [][NextTwin]_vars

(***************************************************************************)
(* SpecRegister: the two check buttons of the status bar and the flags     *)
(* registerRawInputDevice() passes on for the keyboard.                    *)
(***************************************************************************)
\* registerRawInputDevice(): the flags computed from the buttons
registerRawInputDevice(noHotkeysChecked, noLegacyChecked) ==
    BitOr(IF noHotkeysChecked THEN 0 ELSE RIDEV_NOHOTKEYS,
          IF noHotkeysChecked THEN 0 ELSE RIDEV_NOLEGACY)

\* one call: the buttons' states when it was made, and the flags
RegistrationCall(noHotkeysChecked, noLegacyChecked) ==
    [noHotkeysChecked |-> noHotkeysChecked,
     noLegacyChecked  |-> noLegacyChecked,
     flags |-> registerRawInputDevice(noHotkeysChecked, noLegacyChecked)]

\* the constructor sets the buttons from the registry and registers
InitRegister ==
    /\ pendingSequence_ = "None"
    /\ items = << >>
    /\ adjustmentChecked = TRUE
    /\ lastFedE1 = FALSE
    /\ clearedSinceFed = FALSE
    /\ last = LastOf("init")
    /\ codec = CodecIdle
    /\ loader = LoaderIdle
    /\ twin = TwinIdle
    /\ \E nh \in BOOLEAN, nl \in BOOLEAN :
          registration = [noHotkeysChecked |-> nh, noLegacyChecked |-> nl,
                          calls |-> << RegistrationCall(nh, nl) >>]

RegisterOnly ==
    UNCHANGED <<pendingSequence_, items, adjustmentChecked, lastFedE1,
                clearedSinceFed, last, codec, loader, twin>>

\* the user clicks the TBSTYLE_CHECK button ID_NOHOTKEYS: its check state
\* flips and onCommand registers again
OnCommandNoHotkeys ==
    /\ Len(registration.calls) < MaxRegistrations
    /\ LET nh == ~registration.noHotkeysChecked
           nl == registration.noLegacyChecked
       IN  registration' =
               [noHotkeysChecked |-> nh, noLegacyChecked |-> nl,
                calls |-> Append(registration.calls, RegistrationCall(nh, nl))]
    /\ RegisterOnly

\* the user clicks the TBSTYLE_CHECK button ID_NOLEGACY
OnCommandNoLegacy ==
    /\ Len(registration.calls) < MaxRegistrations
    /\ LET nh == registration.noHotkeysChecked
           nl == ~registration.noLegacyChecked
       IN  registration' =
               [noHotkeysChecked |-> nh, noLegacyChecked |-> nl,
                calls |-> Append(registration.calls, RegistrationCall(nh, nl))]
    /\ RegisterOnly

NextRegister == OnCommandNoHotkeys \/ OnCommandNoLegacy

SpecRegister == InitRegister /\ [][NextRegister]_vars

(***************************************************************************)
(* SpecLoader: a table text is drawn and loaded by the constructor's loop; *)
(* then either a second text derived from it is loaded for comparison, or  *)
(* the display code looks a record up in the table.                        *)
(***************************************************************************)
InitLoader ==
    /\ pendingSequence_ = "None"
    /\ items = << >>
    /\ adjustmentChecked = TRUE
    /\ lastFedE1 = FALSE
    /\ clearedSinceFed = FALSE
    /\ last = NoRecord
    /\ codec = CodecIdle
    /\ twin = TwinIdle
    /\ registration = RegistrationIdle
    /\ \E which \in {"scan", "vkey"} : \E lines \in LineSeqs(which) :
          loader = [LoaderIdle EXCEPT !.stage = "drawn", !.which = which,
                                      !.lines = lines, !.text = Join(lines)]

LoaderOnly ==
    UNCHANGED <<pendingSequence_, items, adjustmentChecked, lastFedE1,
                clearedSinceFed, last, codec, twin, registration>>

\* the constructor's loop on the text
LoadText ==
    /\ loader.stage = "drawn"
    /\ loader' = [loader EXCEPT !.stage = "loaded",
                                !.map = LoadMapping(loader.text, loader.which)]
    /\ LoaderOnly

\* the constructor's loop on the text with blank lines and padding
LoadNoisy ==
    /\ loader.stage = "loaded"
    /\ \E pad \in LinePads : \E blank \in BlankLines :
       \E pos \in 0 .. Len(loader.lines) :
          LET text2 == NoisyText(loader.lines, pad, blank, pos)
          IN  loader' = [loader EXCEPT !.stage = "compared", !.rel = "noise",
                            !.text2 = text2,
                            !.map2 = LoadMapping(text2, loader.which)]
    /\ LoaderOnly

\* the constructor's loop on the text with a bad line
LoadWithBadLine ==
    /\ loader.stage = "loaded"
    /\ \E pos \in 0 .. Len(loader.lines) :
          LET text2 == BadLineText(loader.lines, loader.which, pos)
          IN  loader' = [loader EXCEPT !.stage = "compared", !.rel = "badline",
                            !.text2 = text2,
                            !.map2 = LoadMapping(text2, loader.which)]
    /\ LoaderOnly

\* getListViewItemDisplayInfo, the columns that read a table: the lookup
\* and the use of its iterator
getListViewItemDisplayInfo ==
    /\ loader.stage = "loaded"
    /\ \E rawKbd \in LookupRecords :
          LET it == IF loader.which = "scan"
                    THEN lookupKeyCode(loader.map, rawKbd)
                    ELSE lookupVirtualKey(loader.map, rawKbd)
          IN  \E outcome \in EndDereferenceOutcomes \cup {"entry"} :
                /\ outcome = "entry" <=> ~it.end
                /\ loader' = [loader EXCEPT !.stage = "displayed",
                       !.rawKbd = rawKbd, !.it = it,
                       !.shown = [outcome |-> outcome,
                                  value |-> IF it.end THEN << >>
                                            ELSE loader.map[it.key]]]
    /\ LoaderOnly

NextLoader ==
    LoadText \/ LoadNoisy \/ LoadWithBadLine \/ getListViewItemDisplayInfo

SpecLoader == InitLoader /\ [][NextLoader]_vars

(***************************************************************************)
(* Properties.  They read the record and the outcome from the history      *)
(* variable last, and test flag bits by arithmetic of their own.           *)
(***************************************************************************)
HasFlag(word, bit) == (word \div bit) % 2 = 1

\* adjustKeyboardInput has processed the record last.raw
Normalized == last.op = "keyboard" /\ last.adjusted

\* the outcome is the Pause/Break treatment
IsPauseOutcome ==
    /\ last.surfaced
    /\ last.rawKbd.VKey = 19
    /\ HasFlag(last.rawKbd.adjustments, 2)

\* a record with make code 0x45 and no E1 flag was processed right after
\* (overrun markers aside) a record flagged E1
Is45AfterE1 ==
    /\ Normalized
    /\ last.fedE1Before
    /\ last.raw.MakeCode = 69
    /\ ~HasFlag(last.raw.Flags, 4)

\* C1 as stated: with adjustment enabled, when a record flagged E1 is fed
\* and the next non-overrun record has make code 0x45 and no E1 flag, that
\* record is surfaced with VKey = VK_PAUSE and VirtualKeyAdjusted set.
\* (Fails: a clear between the two records resets the pending sequence.)
C1_PauseAfterE1_AsStated == Is45AfterE1 => IsPauseOutcome

\* C1 amended: the same, provided the list was not cleared (clear command
\* or mouse right-button-up) between the E1 record and the 0x45 record.
C1_PauseAfterE1_NoClearBetween ==
    (Is45AfterE1 /\ ~last.clearedBefore) => IsPauseOutcome

\* C1 witness: a 0x45 record carrying E0 and VK_CONTROL, fed after an E1
\* record with no clear between, came out as Pause/Break
C1_Witness ==
    /\ Is45AfterE1
    /\ ~last.clearedBefore
    /\ last.raw = Rec(69, 2, 17)
    /\ IsPauseOutcome

\* a record with make code 0x45 was processed while pending was None
Is45WithNonePending ==
    /\ Normalized
    /\ last.raw.MakeCode = 69
    /\ last.pendingBefore = "None"

\* C2 as stated: a record with make code 0x45 fed while pending is None is
\* surfaced with ExtendedLookup set and its virtual key unchanged, for every
\* virtual key and every flags value.  (Fails: a record flagged E1 is
\* suppressed, and Control/Menu with E0 become their right-hand keys.)
C2_NumLock_AsStated ==
    Is45WithNonePending =>
        /\ last.surfaced
        /\ HasFlag(last.rawKbd.adjustments, 128)
        /\ last.rawKbd.VKey = last.raw.VKey

\* C2 amended: a record with make code 0x45 and no E1 flag fed while pending
\* is None is surfaced with ExtendedLookup set; its virtual key is unchanged
\* unless the record carries E0 and its virtual key is VK_CONTROL or
\* VK_MENU, which become VK_RCONTROL and VK_RMENU.
C2_NumLock_Amended ==
    (Is45WithNonePending /\ ~HasFlag(last.raw.Flags, 4)) =>
        /\ last.surfaced
        /\ HasFlag(last.rawKbd.adjustments, 128)
        /\ last.rawKbd.VKey =
             IF HasFlag(last.raw.Flags, 2) /\ last.raw.VKey = 17 THEN 163
             ELSE IF HasFlag(last.raw.Flags, 2) /\ last.raw.VKey = 18 THEN 165
             ELSE last.raw.VKey

\* C2 witness: Num Lock (VK 0x90, no flags) surfaced with ExtendedLookup
C2_Witness ==
    /\ Is45WithNonePending
    /\ last.raw = Rec(69, 0, 144)
    /\ last.surfaced
    /\ last.rawKbd.VKey = 144
    /\ last.rawKbd.adjustments = 128

\* C3: a record whose make code is the overrun marker is suppressed and
\* leaves pending as it was, for every pending value and every flags value.
C3_OverrunSuppressed ==
    (Normalized /\ last.raw.MakeCode = 255) =>
        /\ ~last.surfaced
        /\ pendingSequence_ = last.pendingBefore

\* C3 witness: an overrun marker flagged E1 was processed while E0 was
\* pending
C3_Witness ==
    /\ Normalized
    /\ last.raw.MakeCode = 255
    /\ HasFlag(last.raw.Flags, 4)
    /\ last.pendingBefore = "E0"
    /\ pendingSequence_ = "E0"

\* C4: a non-overrun record flagged E1 is suppressed and leaves pending at
\* E1, whatever pending was and whatever make code and virtual key it has.
C4_E1PrefixSuppressed ==
    (Normalized /\ last.raw.MakeCode # 255 /\ HasFlag(last.raw.Flags, 4)) =>
        /\ ~last.surfaced
        /\ pendingSequence_ = "E1"

\* C4 witness: make code 0x2A flagged E1 and E0, processed while E0 was
\* pending
C4_Witness ==
    /\ Normalized
    /\ last.raw.MakeCode = 42
    /\ last.raw.Flags = 6
    /\ last.pendingBefore = "E0"
    /\ pendingSequence_ = "E1"

\* C5: a record without E1, with E0 and make code 0x2A, is suppressed and
\* leaves pending at E0, whatever pending was.
C5_E0PrefixSuppressed ==
    (/\ Normalized
     /\ ~HasFlag(last.raw.Flags, 4)
     /\ HasFlag(last.raw.Flags, 2)
     /\ last.raw.MakeCode = 42) =>
        /\ ~last.surfaced
        /\ pendingSequence_ = "E0"

\* C5 witness: the break of the fake shift, processed while E1 was pending
C5_Witness ==
    /\ Normalized
    /\ last.raw.MakeCode = 42
    /\ last.raw.Flags = 3
    /\ last.pendingBefore = "E1"
    /\ pendingSequence_ = "E0"

\* the record is neither an overrun marker, nor flagged E1, nor the E0 fake
\* shift
IsPlainRecord ==
    /\ last.raw.MakeCode # 255
    /\ ~HasFlag(last.raw.Flags, 4)
    /\ ~(HasFlag(last.raw.Flags, 2) /\ last.raw.MakeCode = 42)

\* C6: after any record that is neither an overrun marker, nor flagged E1,
\* nor an E0-flagged 0x2A, pending is None, whether the record was surfaced
\* or dropped for a make code still 0 after translation.
C6_PendingConsumed ==
    (Normalized /\ IsPlainRecord) => pendingSequence_ = "None"

\* C6 witness: a record with no make code and no translation was dropped
\* while E1 was pending
C6_Witness ==
    /\ Normalized
    /\ IsPlainRecord
    /\ last.raw.MakeCode = 0
    /\ ~last.surfaced
    /\ last.pendingBefore = "E1"
    /\ pendingSequence_ = "None"

\* the event packed has byte-sized fields
IsByteEvent(e) ==
    /\ e.MakeCode < 256
    /\ e.Flags < 256
    /\ e.VKey < 256
    /\ e.adjustments < 256

\* C7: for every event with fields in 0..255, unpacking the packed word
\* gives the same four fields, and isKeyDown = ((Flags & RI_KEY_BREAK) = 0).
C7_RoundTrip ==
    (codec.stage = "unpacked" /\ IsByteEvent(codec.e)) =>
        /\ codec.out.MakeCode = codec.e.MakeCode
        /\ codec.out.Flags = codec.e.Flags
        /\ codec.out.VKey = codec.e.VKey
        /\ codec.out.adjustments = codec.e.adjustments
        /\ codec.out.isKeyDown = ~HasFlag(codec.e.Flags, 1)

\* C7 witness: a key-up event with ExtendedLookup but no E0 flag went
\* through the word and came back
C7_Witness ==
    /\ codec.stage = "unpacked"
    /\ codec.e.MakeCode = 30
    /\ codec.e.Flags = 1
    /\ codec.e.VKey = 255
    /\ codec.e.adjustments = 128
    /\ codec.out.adjustments = 128
    /\ ~codec.out.isKeyDown

\* C8: the packed word is MakeCode + Flags*2^8 + VKey*2^16 + adjustments*2^24
\* for byte-sized fields.  The word is compared as 32 unsigned bits, in two
\* 16-bit halves: the low half is MakeCode + Flags*2^8, the high half is
\* VKey + adjustments*2^8.
C8_PackLayout ==
    (codec.stage # "idle" /\ IsByteEvent(codec.e)) =>
        /\ codec.word % 65536 = codec.e.MakeCode + codec.e.Flags * 256
        /\ (codec.word \div 65536) % 65536
             = codec.e.VKey + codec.e.adjustments * 256

\* C8 witness: an event with all four fields distinct and bit 31 set
C8_Witness ==
    /\ codec.stage = "packed"
    /\ codec.e.MakeCode = 30
    /\ codec.e.Flags = 1
    /\ codec.e.VKey = 128
    /\ codec.e.adjustments = 255
    /\ codec.word < 0

\* the 'A' key was fed while pending was None
IsKeyA ==
    /\ last.op = "keyboard"
    /\ last.raw = Rec(30, 0, 65)
    /\ last.pendingBefore = "None"

\* the 'A' key came out unchanged, as the last item of the list, and its
\* stored word is looked up under 0x01E
KeyASurfaced ==
    /\ last.surfaced
    /\ last.rawKbd.MakeCode = 30
    /\ last.rawKbd.VKey = 65
    /\ last.rawKbd.adjustments = 0
    /\ last.rawKbd.isKeyDown
    /\ Len(items) > 0
    /\ items[Len(items)] = last.lParam
    /\ getLookupCode(getRawKeyboard(last.lParam)) = 30

\* C9 as stated: {MakeCode 0x1E, Flags 0, VKey 0x41} fed with pending None
\* is surfaced with MakeCode 0x1E, VKey 0x41, adjustments 0, key down; its
\* packed word is 0x00411E and its lookup code is 0x01E.  (Fails: the word
\* has the flags byte between the make code and the virtual key.)
C9_KeyA_AsStated == IsKeyA => (KeyASurfaced /\ last.lParam = 16670)

\* C9 amended: the same, with the packed word 0x0041001E.
C9_KeyA_Amended == IsKeyA => (KeyASurfaced /\ last.lParam = 4259870)

\* C9 witness: the 'A' key went through adjustKeyboardInput into the list
C9_Witness ==
    /\ IsKeyA
    /\ last.adjusted
    /\ items[Len(items)] = 4259870

\* a record with no make code that is not an E1 prefix was processed
IsZeroMakeCode ==
    /\ Normalized
    /\ last.raw.MakeCode = 0
    /\ ~HasFlag(last.raw.Flags, 4)

\* C10: a record with make code 0 (not a prefix) is suppressed when the
\* translation returns 0 (which is also how it fails), and is surfaced with
\* the translation's code as its make code when that code is not 0.
C10_ZeroMakeCode ==
    IsZeroMakeCode =>
        IF last.mapResult = 0
        THEN ~last.surfaced
        ELSE last.surfaced /\ last.rawKbd.MakeCode = last.mapResult

\* C10 witness: no translation for the virtual key, and the record dropped
C10_Witness ==
    /\ IsZeroMakeCode
    /\ last.mapResult = 0
    /\ ~last.surfaced

\* the other case of C10: a translation with a prefix byte (0xE01D) surfaced
C10_SurfacedCase ==
    /\ IsZeroMakeCode
    /\ last.mapResult = 57373
    /\ last.surfaced
    /\ last.rawKbd.MakeCode = 57373

\* C11: a surfaced event carries MakeCodeMapped exactly when the record's
\* make code was 0 and was recovered by the translation; an event whose raw
\* make code was not 0 never carries it.
C11_MakeCodeMappedIff ==
    (Normalized /\ last.surfaced) =>
        /\ HasFlag(last.rawKbd.adjustments, 1) <=> (last.raw.MakeCode = 0)
        /\ last.raw.MakeCode = 0 =>
             /\ last.mapResult # 0
             /\ last.rawKbd.MakeCode = last.mapResult

\* C11 witness: a record without a make code surfaced with the translated
\* code 0x1D and the flag
C11_Witness ==
    /\ Normalized
    /\ last.surfaced
    /\ last.raw.MakeCode = 0
    /\ last.rawKbd.MakeCode = 29
    /\ HasFlag(last.rawKbd.adjustments, 1)

\* C12: a surfaced event whose raw virtual key is VK_SHIFT becomes
\* VK_LSHIFT when its make code is 0x2A (E0 clear) and VK_RSHIFT when its
\* make code is 0x36, with VirtualKeyAdjusted set in both cases.
C12_ShiftLeftRight ==
    (Normalized /\ last.surfaced /\ last.raw.VKey = 16) =>
        /\ (last.rawKbd.MakeCode = 42 /\ ~HasFlag(last.raw.Flags, 2)) =>
             (last.rawKbd.VKey = 160 /\ HasFlag(last.rawKbd.adjustments, 2))
        /\ last.rawKbd.MakeCode = 54 =>
             (last.rawKbd.VKey = 161 /\ HasFlag(last.rawKbd.adjustments, 2))

\* C12 witness: the right Shift key, without E0, came out as VK_RSHIFT
C12_Witness ==
    /\ Normalized
    /\ last.surfaced
    /\ last.raw = Rec(54, 0, 16)
    /\ last.rawKbd.VKey = 161
    /\ last.rawKbd.adjustments = 2

\* the event is Pause/Break: make code 0x45 after an E1 prefix
IsPauseCase == last.rawKbd.MakeCode = 69 /\ last.pendingBefore = "E1"

\* C13: for a surfaced event whose raw virtual key is VK_CONTROL (VK_MENU)
\* and that is not the Pause case: with E0 the virtual key becomes
\* VK_RCONTROL (VK_RMENU) and VirtualKeyAdjusted is set; without E0 the
\* virtual key is unchanged and VirtualKeyAdjusted is not set.
C13_ControlMenuByE0 ==
    (/\ Normalized
     /\ last.surfaced
     /\ last.raw.VKey \in {17, 18}
     /\ ~IsPauseCase) =>
        IF HasFlag(last.raw.Flags, 2)
        THEN /\ last.rawKbd.VKey = (IF last.raw.VKey = 17 THEN 163 ELSE 165)
             /\ HasFlag(last.rawKbd.adjustments, 2)
        ELSE /\ last.rawKbd.VKey = last.raw.VKey
             /\ ~HasFlag(last.rawKbd.adjustments, 2)

\* C13 witness: the left Control key (no E0) came out unchanged
C13_Witness ==
    /\ Normalized
    /\ last.surfaced
    /\ last.raw = Rec(29, 0, 17)
    /\ last.rawKbd.VKey = 17
    /\ last.rawKbd.adjustments = 0

\* the other case of C13: the right Menu key (E0) came out as VK_RMENU
C13_RightMenuCase ==
    /\ Normalized
    /\ last.surfaced
    /\ last.raw = Rec(30, 2, 18)
    /\ last.rawKbd.VKey = 165

\* C14: every surfaced event has its make code, flags and virtual key in
\* 0..255 when it is handed to PackedRawKeyboard, also when the make code
\* comes from the translation.  Stated for records whose own three fields
\* are in 0..255.  (Fails: the 16-bit translation result is stored whole,
\* and the word keeps its low byte only.)
C14_FieldsAreBytes ==
    (/\ Normalized
     /\ last.surfaced
     /\ last.raw.MakeCode < 256
     /\ last.raw.Flags < 256
     /\ last.raw.VKey < 256) =>
        /\ last.rawKbd.MakeCode < 256
        /\ last.rawKbd.Flags < 256
        /\ last.rawKbd.VKey < 256
        /\ getRawKeyboard(last.lParam).MakeCode = last.rawKbd.MakeCode

\* C20: the lookup code of a stored event is its make code plus 0x100 when
\* ExtendedLookup is set and its make code otherwise, and lies in 0..0x1FF.
C20_LookupCode ==
    codec.stage = "unpacked" =>
        /\ codec.lookupCode =
             codec.out.MakeCode
             + (IF HasFlag(codec.out.adjustments, 128) THEN 256 ELSE 0)
        /\ codec.lookupCode \in 0 .. 511

\* C20 witness: a stored event with ExtendedLookup and make code 0xFF has
\* the lookup code 0x1FF
C20_Witness ==
    /\ codec.stage = "unpacked"
    /\ codec.out.MakeCode = 255
    /\ codec.out.adjustments = 128
    /\ codec.lookupCode = 511

(***************************************************************************)
(* Properties of the table loader and of the lookups.  They read the texts *)
(* and the tables from loader.                                             *)
(***************************************************************************)
Loaded == loader.stage \in {"loaded", "compared", "displayed"}

\* the key a line parses to, and the entry that line alone produces
LineKey(line) == toUShort(splitOnce(line, "=")[1], 16)
LineEntry(line, which) == LoadMapping(line, which)[LineKey(line)]

\* line j is the last line of the text with its key, and not the first
IsLaterDuplicate(lines, j) ==
    /\ \E i \in 1 .. (j - 1) : LineKey(lines[i]) = LineKey(lines[j])
    /\ \A k \in (j + 1) .. Len(lines) : LineKey(lines[k]) # LineKey(lines[j])

\* C15: when two lines of a table text parse to the same key, the loaded
\* table holds the entry of the later line, in the scan-code table and in
\* the virtual-key table.  (Fails: emplace keeps the entry of the first
\* line.)
C15_LastLineWins ==
    Loaded =>
        \A j \in 1 .. Len(loader.lines) :
            IsLaterDuplicate(loader.lines, j) =>
                loader.map[LineKey(loader.lines[j])]
                    = LineEntry(loader.lines[j], loader.which)

\* the code the display looks up, and the key of the table's fallback entry
LookedUpCode ==
    IF loader.which = "scan"
    THEN loader.rawKbd.MakeCode
         + (IF HasFlag(loader.rawKbd.adjustments, 128) THEN 256 ELSE 0)
    ELSE loader.rawKbd.VKey

SentinelKey == IF loader.which = "scan" THEN 0 ELSE 255

Displayed == loader.stage = "displayed"

ShowsEntryOf(key) ==
    /\ ~loader.it.end
    /\ loader.it.key = key
    /\ loader.shown.outcome = "entry"
    /\ loader.shown.value = loader.map[key]

\* C16: a lookup of a code the table holds gives the entry of that code; a
\* lookup of a code the table does not hold gives the entry keyed 0x000 in
\* the scan-code table and the entry keyed 0xFF in the virtual-key table,
\* whenever the table holds that entry.
C16_SentinelFallback ==
    Displayed =>
        /\ LookedUpCode \in DOMAIN loader.map => ShowsEntryOf(LookedUpCode)
        /\ (LookedUpCode \notin DOMAIN loader.map
            /\ SentinelKey \in DOMAIN loader.map) => ShowsEntryOf(SentinelKey)

\* C16 witness: an extended code missing from a scan-code table that holds
\* 0x000 was looked up, and the 0x000 entry was shown
C16_Witness ==
    /\ Displayed
    /\ loader.which = "scan"
    /\ LookedUpCode = 285
    /\ LookedUpCode \notin DOMAIN loader.map
    /\ ShowsEntryOf(0)
    /\ loader.shown.value.sml = << "U" >>

\* C16, the virtual-key table: a missing virtual key showed the 0xFF entry
C16_VKeyCase ==
    /\ Displayed
    /\ loader.which = "vkey"
    /\ LookedUpCode \notin DOMAIN loader.map
    /\ ShowsEntryOf(255)

\* C17: when the table does not hold its fallback entry, a lookup that
\* misses gives the display code an empty entry.  (Fails: the lookup
\* returns end() and the display code reads through it.)
C17_MissWithoutSentinelIsEmpty ==
    (Displayed
     /\ LookedUpCode \notin DOMAIN loader.map
     /\ SentinelKey \notin DOMAIN loader.map) => loader.shown.outcome = "empty"

\* C18: a scan-code text with a line whose key is no hex number loads, and
\* every entry of the text without that line is in the table unchanged,
\* the 0x000 entry included.  (Fails: the bad key parses to 0, and a bad
\* line ahead of the 000 line takes the place of the 0x000 entry.)
C18_BadLineLeavesOthers ==
    (loader.stage = "compared" /\ loader.rel = "badline"
     /\ loader.which = "scan") =>
        \A key \in DOMAIN loader.map :
            /\ key \in DOMAIN loader.map2
            /\ loader.map2[key] = loader.map[key]

\* C19: a text, and the same text with empty or whitespace-only lines
\* inserted and whitespace (carriage returns included) appended to its
\* lines, load to the same table.
C19_NoiseIgnored ==
    (loader.stage = "compared" /\ loader.rel = "noise") =>
        loader.map2 = loader.map

\* C19 witness: a text whose lines got a carriage return appended and a
\* line of one blank inserted was loaded to the table of the plain text
C19_Witness ==
    /\ loader.stage = "compared"
    /\ loader.rel = "noise"
    /\ Len(loader.lines) = 2
    /\ Len(loader.text2) = Len(loader.text) + 4
    /\ \E i \in 1 .. Len(loader.text2) : loader.text2[i] = "\r"
    /\ \E i \in 1 .. Len(loader.text2) : loader.text2[i] = " "
    /\ DOMAIN loader.map = {0, 30}
    /\ loader.map2 = loader.map

(***************************************************************************)
(* Properties of the normalizer's calls, of the window's history and of    *)
(* the flags of surfaced events.                                           *)
(***************************************************************************)
\* C21: adjustKeyboardInput calls MapVirtualKey only for a record whose make
\* code is 0: not for an overrun marker, not for a record flagged E1, not
\* for the E0 0x2A prefix, and not for a record with a make code.
C21_MapOnlyForZeroMakeCode ==
    Normalized =>
        /\ last.mapCalled => last.raw.MakeCode = 0
        /\ last.raw.MakeCode = 255 => ~last.mapCalled
        /\ HasFlag(last.raw.Flags, 4) => ~last.mapCalled
        /\ (HasFlag(last.raw.Flags, 2) /\ last.raw.MakeCode = 42)
               => ~last.mapCalled
        /\ last.raw.MakeCode # 0 => ~last.mapCalled

\* C21 witness: a record without a make code and with the E0 flag had its
\* virtual key translated and was surfaced
C21_Witness ==
    /\ Normalized
    /\ last.raw.MakeCode = 0
    /\ last.raw.Flags = 3
    /\ last.mapCalled
    /\ last.surfaced
    /\ last.rawKbd.MakeCode = last.mapResult

\* the record surfaced last left adjustKeyboardInput with make code 0x45
Surfaced45 == Normalized /\ last.surfaced /\ last.rawKbd.MakeCode = 69

\* the last record adjustKeyboardInput processed before, overrun markers
\* aside, carried E1, and the list was not cleared since
E1RecordPrecedes == last.fedE1Before /\ ~last.clearedBefore

\* C22: a surfaced event with make code 0x45 is Pause/Break exactly when
\* the last record processed before it (overrun markers aside, since the
\* start or the last clear) carried E1; after any other record it gets the
\* Num Lock treatment: ExtendedLookup, and the virtual key is not Pause by
\* adjustment.
C22_PauseIffE1Precedes ==
    Surfaced45 =>
        /\ IsPauseOutcome <=> E1RecordPrecedes
        /\ ~E1RecordPrecedes => HasFlag(last.rawKbd.adjustments, 128)

\* C22 witness: a record was surfaced, then a 0x45 record with no E1 record
\* right before it was surfaced as Num Lock
C22_Witness ==
    /\ Surfaced45
    /\ ~last.fedE1Before
    /\ Len(items) = 2
    /\ ~IsPauseOutcome
    /\ HasFlag(last.rawKbd.adjustments, 128)

\* C22, the other side: a 0x45 record right after an E1 record, with other
\* input in the list already, was surfaced as Pause/Break
C22_PauseCase ==
    /\ Surfaced45
    /\ E1RecordPrecedes
    /\ Len(items) = 2
    /\ IsPauseOutcome

\* C23: the list is the sequence of the surfaced keyboard records since the
\* last clear, in arrival order: a surfaced record appends its packed word
\* at the end, a suppressed record and a mouse record that does not clear
\* append nothing, and nothing else changes the list but a clear.
C23_ListIsSurfacedSequence ==
    [][ /\ (last'.op = "keyboard" /\ last'.surfaced)
               => items' = Append(items, last'.lParam)
        /\ (last'.op = "keyboard" /\ ~last'.surfaced) => items' = items
        /\ last'.op = "mouse" => (items' = items \/ items' = << >>)
        /\ last'.op = "clear" => items' = << >>
        /\ last'.op = "toggle" => items' = items ]_vars

\* C23 witness: the second of two different surfaced records is the last
\* item of a list of two
C23_Witness ==
    /\ last.op = "keyboard"
    /\ last.surfaced
    /\ Len(items) = 2
    /\ items[2] = last.lParam
    /\ items[1] # items[2]

\* C23, a suppressed record: the list holds one item and the record handled
\* last was not surfaced
C23_SuppressedCase ==
    /\ last.op = "keyboard"
    /\ ~last.surfaced
    /\ Len(items) = 1

\* a clear was the last message handled: the clear command, or a mouse
\* record with the right-button-up flag
ClearedLast ==
    \/ last.op = "clear"
    \/ last.op = "mouse" /\ HasFlag(last.usButtonFlags, 8)

\* C24: a clear (the clear command or a mouse right-button-up record)
\* empties the list and sets the pending sequence to None, and a record
\* with make code 0x45 surfaced after a clear is not Pause/Break, whatever
\* record came before the clear.
C24_ClearResetsPending ==
    /\ ClearedLast => (items = << >> /\ pendingSequence_ = "None")
    /\ clearedSinceFed => pendingSequence_ = "None"
    /\ (Surfaced45 /\ last.clearedBefore) =>
           (last.pendingBefore = "None" /\ ~IsPauseOutcome)

\* C24 witness: an E1 record, then a clear, then a 0x45 record that was
\* surfaced as Num Lock
C24_Witness ==
    /\ Surfaced45
    /\ last.fedE1Before
    /\ last.clearedBefore
    /\ last.pendingBefore = "None"
    /\ ~IsPauseOutcome
    /\ HasFlag(last.rawKbd.adjustments, 128)

\* C24, the mouse: a right-button-up record came after an E1 record and
\* left the list empty and no sequence pending
C24_MouseCase ==
    /\ last.op = "mouse"
    /\ HasFlag(last.usButtonFlags, 8)
    /\ lastFedE1
    /\ items = << >>
    /\ pendingSequence_ = "None"

\* the packed word of a record as RawKeyboard constructs it: the three
\* fields, and ExtendedLookup when the record carries E0
UnadjustedWord(raw) ==
    raw.MakeCode + raw.Flags * 256 + raw.VKey * 65536
    + (IF HasFlag(raw.Flags, 2) THEN 0 - 2147483647 - 1 ELSE 0)

\* C25: while the adjustment toggle is unchecked every keyboard record,
\* overrun markers, prefix records and records without a make code
\* included, is surfaced as constructed and the pending sequence stays as
\* it is; the toggle itself changes neither the pending sequence nor the
\* list, so a sequence pending when the toggle was unchecked is pending
\* for the first record processed after it is checked again.
C25_UncheckedLeavesPending ==
    [][ /\ (last'.op = "keyboard" /\ ~last'.adjusted) =>
              /\ last'.surfaced
              /\ ~last'.mapCalled
              /\ last'.rawKbd.MakeCode = last'.raw.MakeCode
              /\ last'.rawKbd.Flags = last'.raw.Flags
              /\ last'.rawKbd.VKey = last'.raw.VKey
              /\ last'.rawKbd.adjustments
                    = (IF HasFlag(last'.raw.Flags, 2) THEN 128 ELSE 0)
              /\ items' = Append(items, UnadjustedWord(last'.raw))
              /\ pendingSequence_' = pendingSequence_
        /\ last'.op = "toggle" =>
              /\ pendingSequence_' = pendingSequence_
              /\ items' = items ]_vars

\* C25 witness: with the toggle unchecked and E1 pending, an overrun marker
\* was surfaced as it came and E1 is still pending
C25_Witness ==
    /\ last.op = "keyboard"
    /\ ~last.adjusted
    /\ ~adjustmentChecked
    /\ last.raw.MakeCode = 255
    /\ last.surfaced
    /\ last.pendingBefore = "E1"
    /\ pendingSequence_ = "E1"
    /\ Len(items) = 1
    /\ items[1] % 256 = 255

\* C26: a surfaced event has ExtendedLookup exactly when the raw record
\* carries E0, or the event's make code (after the translation of a zero
\* make code) is 0x45 and the pending sequence consumed was not E1; and
\* ExtendedLookup set by RawKeyboard's constructor is still set when
\* adjustKeyboardInput returns, surfaced or not.
C26_ExtendedLookupIff ==
    Normalized =>
        /\ last.surfaced =>
              (HasFlag(last.rawKbd.adjustments, 128)
                 <=> \/ HasFlag(last.raw.Flags, 2)
                     \/ (last.rawKbd.MakeCode = 69
                         /\ last.pendingBefore # "E1"))
        /\ HasFlag(last.raw.Flags, 2) => HasFlag(last.rawKbd.adjustments, 128)

\* C26 witness: a record without E0 whose zero make code was translated to
\* 0x45 while E0 was pending was surfaced with ExtendedLookup
C26_Witness ==
    /\ Normalized
    /\ last.surfaced
    /\ last.raw.MakeCode = 0
    /\ ~HasFlag(last.raw.Flags, 2)
    /\ last.rawKbd.MakeCode = 69
    /\ last.pendingBefore = "E0"
    /\ HasFlag(last.rawKbd.adjustments, 128)

\* C26, the other side: a 0x45 record without E0 that consumed E1 was
\* surfaced without ExtendedLookup
C26_PauseCase ==
    /\ Normalized
    /\ last.surfaced
    /\ last.raw.MakeCode = 69
    /\ last.raw.Flags = 1
    /\ last.pendingBefore = "E1"
    /\ ~HasFlag(last.rawKbd.adjustments, 128)

\* both normalizers of SpecTwin have processed the record
TwinDone == twin.ranNone /\ twin.ranE0

\* both return the same value and, when they surface the record, the same
\* event
TwinSameOutcome ==
    /\ twin.fromE0.ret = twin.fromNone.ret
    /\ twin.fromE0.ret => twin.fromE0.rawKbd = twin.fromNone.rawKbd

\* C27 as stated: for every record and every translation result,
\* adjustKeyboardInput started with E0 pending and started with None
\* pending give the same outcome and the same next pending sequence.
\* (Fails: an overrun marker leaves the pending sequence as it was, E0 in
\* one and None in the other.)
C27_E0LikeNone_AsStated ==
    TwinDone =>
        /\ TwinSameOutcome
        /\ twin.fromE0.pendingSequence_ = twin.fromNone.pendingSequence_

\* C27 amended: the outcome is the same; the next pending sequence is the
\* same for every record but an overrun marker, after which the one
\* normalizer still has E0 pending and the other still None.
C27_E0LikeNone_Amended ==
    TwinDone =>
        /\ TwinSameOutcome
        /\ twin.raw.MakeCode # 255 =>
              twin.fromE0.pendingSequence_ = twin.fromNone.pendingSequence_
        /\ twin.raw.MakeCode = 255 =>
              /\ twin.fromE0.pendingSequence_ = "E0"
              /\ twin.fromNone.pendingSequence_ = "None"

\* C27 witness: a 0x45 record was surfaced by both normalizers, as Num Lock
\* with ExtendedLookup and no sequence pending afterwards
C27_Witness ==
    /\ TwinDone
    /\ twin.raw.MakeCode = 69
    /\ twin.raw.Flags = 0
    /\ twin.fromE0.ret
    /\ twin.fromNone.ret
    /\ HasFlag(twin.fromE0.rawKbd.adjustments, 128)
    /\ twin.fromE0.rawKbd = twin.fromNone.rawKbd
    /\ twin.fromE0.pendingSequence_ = "None"
    /\ twin.fromNone.pendingSequence_ = "None"

\* C27, an overrun marker: dropped by both, E0 still pending in the one
C27_OverrunCase ==
    /\ TwinDone
    /\ twin.raw.MakeCode = 255
    /\ ~twin.fromE0.ret
    /\ ~twin.fromNone.ret
    /\ twin.fromE0.pendingSequence_ = "E0"

\* C28: a surfaced event whose virtual key is not the raw record's has
\* VirtualKeyAdjusted set; an event without VirtualKeyAdjusted has the raw
\* record's virtual key.
C28_VKeyChangeIsFlagged ==
    (Normalized /\ last.surfaced) =>
        /\ last.rawKbd.VKey # last.raw.VKey
               => HasFlag(last.rawKbd.adjustments, 2)
        /\ ~HasFlag(last.rawKbd.adjustments, 2)
               => last.rawKbd.VKey = last.raw.VKey

\* C28 witness: a 0x45 record with the virtual key of Num Lock that
\* consumed E1 was surfaced as VK_PAUSE with VirtualKeyAdjusted
C28_Witness ==
    /\ Normalized
    /\ last.surfaced
    /\ last.raw.VKey = 144
    /\ last.rawKbd.VKey = 19
    /\ HasFlag(last.rawKbd.adjustments, 2)

\* C28, an event left alone: generic Control without E0 kept its virtual
\* key and has no VirtualKeyAdjusted
C28_UnchangedCase ==
    /\ Normalized
    /\ last.surfaced
    /\ last.raw.VKey = 17
    /\ last.rawKbd.VKey = 17
    /\ ~HasFlag(last.rawKbd.adjustments, 2)

\* C29: with adjustment enabled no stored event has a make code byte of 0,
\* for every 16-bit make code and every 16-bit translation result.
\* (Fails: the zero test is made on the 16-bit make code and the word keeps
\* its low byte, so a make code of 0x100 is surfaced and stored as 0.)
C29_StoredMakeCodeNonzero ==
    (Normalized /\ last.surfaced) => last.lParam % 256 # 0

\* the flags of a call request RIDEV_NOLEGACY (0x30), RIDEV_NOHOTKEYS (0x200)
RequestsNoLegacy(call) == (call.flags \div 16) % 4 = 3
RequestsNoHotkeys(call) == HasFlag(call.flags, 512)

\* C30: in the calls of registerRawInputDevice, whether RIDEV_NOLEGACY is
\* requested is determined by the NoLegacy button's state and whether
\* RIDEV_NOHOTKEYS is requested by the NoHotkeys button's state: two calls
\* made with the same state of a button agree on that button's flag.
\* (Fails: both flags are computed from the NoHotkeys button.)
C30_FlagsFollowOwnButton ==
    \A i, j \in 1 .. Len(registration.calls) :
        LET a == registration.calls[i]
            b == registration.calls[j]
        IN  /\ a.noLegacyChecked = b.noLegacyChecked
                  => (RequestsNoLegacy(a) <=> RequestsNoLegacy(b))
            /\ a.noHotkeysChecked = b.noHotkeysChecked
                  => (RequestsNoHotkeys(a) <=> RequestsNoHotkeys(b))

====
